---- MODULE Spec2Model ----
(***************************************************************************)
(* civicrmapi: the Action / Entity / Api dispatch triad of base.py, the    *)
(* API v4 parameter preparation and the response pipeline (json decoding,  *)
(* api error check, result normalization).                                 *)
(*                                                                         *)
(* Python values are tagged tuples, the tag first, so that two values of   *)
(* different Python types are always comparable:                           *)
(*   None          <<"None">>                                              *)
(*   bool          <<"bool", TRUE>>                                        *)
(*   int           <<"int", 1>>                                            *)
(*   str           <<"str", "abc">>                                        *)
(*   list          <<"list", <<v1, v2>>>>                                  *)
(*   dict          <<"dict", << <<"key", v1>>, ... >>>>  (insertion order) *)
(***************************************************************************)
EXTENDS Integers, Sequences, FiniteSets, TLC

VARIABLES
    version,    \* BaseApi.VERSION of the api instance: "v3" or "v4"
    transport,  \* kind of the concrete api class: "rest" or "cv"
    server,     \* how the remote CiviCRM answers (a function of the request)
    params,     \* the caller's params object (a dict, or None)
    last,       \* record of the last api call performed
    cls,        \* the Api, Entity and Action classes the caller has defined
    obj,        \* record of the last construction of an instance
    env,        \* how the network or the cv process behaves
    req,        \* record of the last call of a concrete transport
    shown       \* record of the last rendering of an exception as text

vars == <<version, transport, server, params, last, cls, obj, env, req, shown>>

(***************************************************************************)
(* Bounds of the model.                                                    *)
(***************************************************************************)
MaxFields == 2

(***************************************************************************)
(* Python values.                                                          *)
(***************************************************************************)
None == <<"None">>
PyBool(b) == <<"bool", b>>
PyInt(n) == <<"int", n>>
PyStr(s) == <<"str", s>>
PyList(seq) == <<"list", seq>>
PyDict(pairs) == <<"dict", pairs>>

IsNone(v) == v[1] = "None"
IsList(v) == v[1] = "list"
IsDict(v) == v[1] = "dict"
IsStr(v) == v[1] = "str"

\* bool(v)
Truthy(v) ==
    CASE v[1] = "None" -> FALSE
      [] v[1] = "bool" -> v[2]
      [] v[1] = "int" -> v[2] # 0
      [] v[1] = "str" -> v[2] # ""
      [] OTHER -> Len(v[2]) > 0

\* `a or b`
PyOr(a, b) == IF Truthy(a) THEN a ELSE b

\* dict: keys(), `key in d`, d[key], d.pop(key)
Keys(d) == {d[2][i][1] : i \in 1..Len(d[2])}
HasKey(d, k) == \E i \in 1..Len(d[2]) : d[2][i][1] = k
GetItem(d, k) == d[2][CHOOSE i \in 1..Len(d[2]) : d[2][i][1] = k][2]
IsNotKey(p, k) == p[1] # k
Pop(d, k) == PyDict(SelectSeq(d[2], LAMBDA p : IsNotKey(p, k)))

\* dict.get(key, default)
DictGet(d, k, default) == IF HasKey(d, k) THEN GetItem(d, k) ELSE default

\* The strings of the model that have 'values' as a substring.
StringsWithValues == {"values", "no values found"}

\* `'values' in s` for a str s
StrContainsValues(s) == s \in StringsWithValues

(***************************************************************************)
(* Inputs: the entities, actions and params the caller chooses from.       *)
(***************************************************************************)
Versions == {"v3", "v4"}
Transports == {"rest", "cv"}
Entities == {"Contact"}
VERSION_ACTIONS == {"get", "create", "update", "delete", "getFields"}
Styles == {"action", "entity", "api"}

\* [key, '=', value]
Triple(k, v) == PyList(<<PyStr(k), PyStr("="), v>>)

FieldKeys == {"id", "where", "values", "select", "contact_type"}

FieldValue(k) ==
    CASE k = "id" -> PyInt(1)
      [] k = "where" -> PyList(<<Triple("contact_type", PyStr("Individual"))>>)
      [] k = "values" -> PyDict(<< <<"organization_name", PyStr("Mega Org")>> >>)
      [] k = "select" -> PyList(<<PyStr("id")>>)
      [] OTHER -> PyStr("Organization")

\* The sequences of at most n distinct keys: a dict keeps insertion order.
KeySeqs(n) ==
    {s \in UNION {[1..m -> FieldKeys] : m \in 0..n} :
        \A i, j \in 1..Len(s) : i # j => s[i] # s[j]}

DictOfKeys(s) == PyDict([i \in 1..Len(s) |-> <<s[i], FieldValue(s[i])>>])

AllParams == {DictOfKeys(s) : s \in KeySeqs(MaxFields)} \cup {None}

(***************************************************************************)
(* utils.dict_to_where_clause_list                                         *)
(***************************************************************************)
RECURSIVE where_params_loop(_, _, _)
where_params_loop(items, i, where_params) ==
    IF i > Len(items) THEN where_params
    ELSE where_params_loop(items, i + 1,
            Append(where_params, Triple(items[i][1], items[i][2])))

\* Variant: the loop starts at the second item.
dict_to_where_clause_list_skip_first(data) == PyList(where_params_loop(data[2], 2, <<>>))

dict_to_where_clause_list(data) == PyList(where_params_loop(data[2], 1, <<>>))

(***************************************************************************)
(* BaseApi._prepare_api_v4_parameters(action, params).  The result is the  *)
(* returned value `ret` together with `arg`, the state of the argument     *)
(* object after the call (params.pop mutates the dict that was passed).    *)
(***************************************************************************)
prepare_get_delete(p) ==
    [ret |-> PyDict(<< <<"where", dict_to_where_clause_list(p)>> >>), arg |-> p]

\* Variant: create wraps the fields like get does.
prepare_create_as_where(p) ==
    [ret |-> PyDict(<< <<"where", dict_to_where_clause_list(p)>> >>), arg |-> p]

prepare_create(p) ==
    [ret |-> PyDict(<< <<"values", p>> >>), arg |-> p]

\* Variant: the id is read with params['id'] and stays in the values.
prepare_update_keep_id(p) ==
    LET id == GetItem(p, "id")
    IN  [ret |-> PyDict(<< <<"where", dict_to_where_clause_list(PyDict(<< <<"id", id>> >>))>>,
                          <<"values", p>> >>),
         arg |-> p]

prepare_update(p) ==
    LET id == GetItem(p, "id")
        popped == Pop(p, "id")
    IN  [ret |-> PyDict(<< <<"where", dict_to_where_clause_list(PyDict(<< <<"id", id>> >>))>>,
                          <<"values", popped>> >>),
         arg |-> popped]

\* Variant: the api version is not looked at.
prepare_api_v4_parameters_any_version(v, action, p) ==
    IF Truthy(p)
    THEN IF action \in {"get", "delete"} /\ ~HasKey(p, "where")
         THEN prepare_get_delete(p)
         ELSE IF action = "create" /\ ~HasKey(p, "values")
         THEN prepare_create(p)
         ELSE IF action = "update" /\ ~HasKey(p, "where") /\ HasKey(p, "id")
         THEN prepare_update(p)
         ELSE [ret |-> p, arg |-> p]
    ELSE [ret |-> p, arg |-> p]

\* Variant: update does not test for the id field and pops it with a default.
prepare_api_v4_parameters_no_id_test(v, action, p) ==
    IF Truthy(p) /\ v = "v4"
    THEN IF action \in {"get", "delete"} /\ ~HasKey(p, "where")
         THEN prepare_get_delete(p)
         ELSE IF action = "create" /\ ~HasKey(p, "values")
         THEN prepare_create(p)
         ELSE IF action = "update" /\ ~HasKey(p, "where")
         THEN LET id == DictGet(p, "id", None)
                  popped == Pop(p, "id")
              IN  [ret |-> PyDict(<< <<"where", dict_to_where_clause_list(PyDict(<< <<"id", id>> >>))>>,
                                    <<"values", popped>> >>),
                   arg |-> popped]
         ELSE [ret |-> p, arg |-> p]
    ELSE [ret |-> p, arg |-> p]

\* Variant: get and delete do not test for the where key.
prepare_api_v4_parameters_no_where_test(v, action, p) ==
    IF Truthy(p) /\ v = "v4"
    THEN IF action \in {"get", "delete"}
         THEN prepare_get_delete(p)
         ELSE IF action = "create" /\ ~HasKey(p, "values")
         THEN prepare_create(p)
         ELSE IF action = "update" /\ ~HasKey(p, "where") /\ HasKey(p, "id")
         THEN prepare_update(p)
         ELSE [ret |-> p, arg |-> p]
    ELSE [ret |-> p, arg |-> p]

prepare_api_v4_parameters(v, action, p) ==
    IF Truthy(p) /\ v = "v4"
    THEN IF action \in {"get", "delete"} /\ ~HasKey(p, "where")
         THEN prepare_get_delete(p)
         ELSE IF action = "create" /\ ~HasKey(p, "values")
         THEN prepare_create(p)
         ELSE IF action = "update" /\ ~HasKey(p, "where") /\ HasKey(p, "id")
         THEN prepare_update(p)
         ELSE [ret |-> p, arg |-> p]
    ELSE [ret |-> p, arg |-> p]

(***************************************************************************)
(* Outcomes of a call: a returned value or a raised exception.             *)
(***************************************************************************)
Return(v) == <<"return", v>>
Raise(exc, payload) == <<"raise", exc, payload>>
Returned(o) == o[1] = "return"
Raised(o, exc) == o[1] = "raise" /\ o[2] = exc

(***************************************************************************)
(* The transport: _perform_api_call hands the request to the remote api    *)
(* and wraps the raw text of the answer in a response object.  The answer  *)
(* is a function of the request: every record echoes it.                   *)
(***************************************************************************)
Servers == {"list", "envelope", "keyed", "novalues", "is_error", "error_code",
            "is_error_values", "error_code_values",
            "null", "number", "bool", "string", "string_values", "junk"}

Echo(entity, action, wireParams) ==
    PyDict(<< <<"entity", PyStr(entity)>>, <<"action", PyStr(action)>>,
              <<"params", wireParams>> >>)

JsonText(v) == <<"json", v>>
JunkText == <<"junk", "Usage: cv api4">>

ServerReply(srv, entity, action, wireParams) ==
    LET rec == Echo(entity, action, wireParams)
    IN  CASE srv = "list" -> JsonText(PyList(<<rec>>))
          [] srv = "envelope" ->
                JsonText(PyDict(<< <<"values", PyList(<<rec>>)>>, <<"count", PyInt(1)>>,
                                   <<"version", PyInt(4)>> >>))
          [] srv = "keyed" ->
                JsonText(PyDict(<< <<"is_error", PyInt(0)>>, <<"count", PyInt(1)>>,
                                   <<"values", PyDict(<< <<"1", rec>> >>)>> >>))
          [] srv = "novalues" -> JsonText(PyDict(<< <<"count", PyInt(0)>> >>))
          [] srv = "is_error" ->
                JsonText(PyDict(<< <<"is_error", PyInt(1)>>,
                                   <<"error_message", PyStr("x")>> >>))
          [] srv = "error_code" ->
                JsonText(PyDict(<< <<"error_code", PyInt(0)>>,
                                   <<"error_message", PyStr("x")>> >>))
          [] srv = "is_error_values" ->
                JsonText(PyDict(<< <<"is_error", PyInt(1)>>,
                                   <<"error_message", PyStr("x")>>,
                                   <<"values", PyList(<<rec>>)>> >>))
          [] srv = "error_code_values" ->
                JsonText(PyDict(<< <<"error_code", PyInt(0)>>,
                                   <<"error_message", PyStr("x")>>,
                                   <<"values", PyList(<<rec>>)>> >>))
          [] srv = "null" -> JsonText(None)
          [] srv = "number" -> JsonText(PyInt(5))
          [] srv = "bool" -> JsonText(PyBool(TRUE))
          [] srv = "string" -> JsonText(PyStr("ok"))
          [] srv = "string_values" -> JsonText(PyStr("no values found"))
          [] OTHER -> JunkText

\* requests.Response has `text`, subprocess.CompletedProcess has `stdout`.
ResponseObject(tr, raw) ==
    IF tr = "rest" THEN <<"Response", raw>> ELSE <<"CompletedProcess", raw>>

perform_api_call(tr, srv, entity, action, wireParams) ==
    ResponseObject(tr, ServerReply(srv, entity, action, wireParams))

(***************************************************************************)
(* BaseApi._get_data_from_response                                         *)
(***************************************************************************)
json_loads(raw) ==
    IF raw[1] = "json" THEN Return(raw[2]) ELSE Raise("JSONDecodeError", None)

\* Variant: InvalidResponse is raised without the response.
get_data_from_response_no_payload(response) ==
    LET value == response[2]
        data == json_loads(value)
    IN  IF Raised(data, "JSONDecodeError")
        THEN Raise("InvalidResponse", None)
        ELSE data

get_data_from_response(response) ==
    LET value == response[2]
        data == json_loads(value)
    IN  IF Raised(data, "JSONDecodeError")
        THEN Raise("InvalidResponse", response)
        ELSE data

(***************************************************************************)
(* BaseApi._check_api_response                                             *)
(***************************************************************************)
\* Variant: the error_code is tested for its truth value like is_error.
check_api_response_truthy_code(data) ==
    IF IsDict(data) /\ Truthy(DictGet(data, "is_error", PyBool(FALSE)))
    THEN Raise("InvalidApiCall", data)
    ELSE IF IsDict(data) /\ Truthy(DictGet(data, "error_code", PyBool(FALSE)))
    THEN Raise("InvalidApiCall", data)
    ELSE Return(data)

check_api_response(data) ==
    IF IsDict(data) /\ Truthy(DictGet(data, "is_error", PyBool(FALSE)))
    THEN Raise("InvalidApiCall", data)
    ELSE IF IsDict(data) /\ HasKey(data, "error_code")
    THEN Raise("InvalidApiCall", data)
    ELSE Return(data)

(***************************************************************************)
(* BaseApi._normalize_result_values                                        *)
(***************************************************************************)
\* `'values' in data`: a key test on a dict, a substring test on a str, and
\* a TypeError on a value that is no container.
values_in(data) ==
    CASE IsDict(data) -> Return(PyBool(HasKey(data, "values")))
      [] IsStr(data) -> Return(PyBool(StrContainsValues(data[2])))
      [] IsList(data) -> Return(PyBool(\E i \in 1..Len(data[2]) : data[2][i] = PyStr("values")))
      [] OTHER -> Raise("TypeError", None)

\* data['values']: a str takes integer indices only.
values_of(data) ==
    IF IsDict(data) THEN Return(GetItem(data, "values")) ELSE Raise("TypeError", None)

\* Variant: a dict with values is returned whole.
normalize_result_values_whole_dict(data) ==
    IF IsList(data)
    THEN Return(data)
    ELSE LET test == values_in(data)
         IN  IF ~Returned(test) THEN test
             ELSE IF test[2][2] THEN Return(data)
             ELSE Raise("InvalidResponse", data)

normalize_result_values(data) ==
    IF IsList(data)
    THEN Return(data)
    ELSE LET test == values_in(data)
         IN  IF ~Returned(test) THEN test
             ELSE IF test[2][2] THEN values_of(data)
             ELSE Raise("InvalidResponse", data)

(***************************************************************************)
(* BaseApi.__call__(entity, action, params)                                *)
(***************************************************************************)
\* Variant: the api keeps the prepared parameters of its last call and uses
\* them again for a call with the same entity and action.
Api__call__remembering(v, tr, srv, entity, action, p) ==
    LET again == last.style # "none" /\ last.entity = entity /\ last.action = action
        prep == IF again
                THEN [ret |-> last.prepared, arg |-> p]
                ELSE prepare_api_v4_parameters(v, action, p)
        wireParams == PyOr(prep.ret, PyDict(<<>>))
        response == perform_api_call(tr, srv, entity, action, wireParams)
        data1 == get_data_from_response(response)
        data2 == IF Returned(data1) THEN check_api_response(data1[2]) ELSE data1
        result == IF Returned(data2) THEN normalize_result_values(data2[2]) ELSE data2
    IN  [given |-> p, prepared |-> prep.ret, arg |-> prep.arg,
         wire |-> <<entity, action, wireParams>>, response |-> response,
         decoded |-> data1, checked |-> data2, outcome |-> result]

\* Variant: the result values are taken out before the error check.
Api__call__normalize_first(v, tr, srv, entity, action, p) ==
    LET prep == prepare_api_v4_parameters(v, action, p)
        wireParams == PyOr(prep.ret, PyDict(<<>>))
        response == perform_api_call(tr, srv, entity, action, wireParams)
        data1 == get_data_from_response(response)
        data2 == IF Returned(data1) THEN normalize_result_values(data1[2]) ELSE data1
        result == IF Returned(data2) THEN check_api_response(data2[2]) ELSE data2
    IN  [given |-> p, prepared |-> prep.ret, arg |-> prep.arg,
         wire |-> <<entity, action, wireParams>>, response |-> response,
         decoded |-> data1, checked |-> data2, outcome |-> result]

Api__call__(v, tr, srv, entity, action, p) ==
    LET prep == prepare_api_v4_parameters(v, action, p)
        wireParams == PyOr(prep.ret, PyDict(<<>>))
        response == perform_api_call(tr, srv, entity, action, wireParams)
        data1 == get_data_from_response(response)
        data2 == IF Returned(data1) THEN check_api_response(data1[2]) ELSE data1
        result == IF Returned(data2) THEN normalize_result_values(data2[2]) ELSE data2
    IN  [given |-> p, prepared |-> prep.ret, arg |-> prep.arg,
         wire |-> <<entity, action, wireParams>>, response |-> response,
         decoded |-> data1, checked |-> data2, outcome |-> result]

\* Variant: the entity refuses an action that is not one of its actions.
Entity__call__known_actions(v, tr, srv, NAME, action, p) ==
    IF action \in VERSION_ACTIONS
    THEN Api__call__(v, tr, srv, NAME, action, PyOr(p, PyDict(<<>>)))
    ELSE [given |-> PyOr(p, PyDict(<<>>)), prepared |-> None,
          arg |-> PyOr(p, PyDict(<<>>)), wire |-> <<"", "", None>>,
          response |-> None, decoded |-> Return(None), checked |-> Return(None),
          outcome |-> Raise("AttributeError", None)]

\* BaseEntity.__call__(action, params)
Entity__call__(v, tr, srv, NAME, action, p) ==
    Api__call__(v, tr, srv, NAME, action, PyOr(p, PyDict(<<>>)))

\* BaseAction.__call__(params)
Action__call__(v, tr, srv, entityNAME, NAME, p) ==
    Entity__call__(v, tr, srv, entityNAME, NAME, PyOr(p, PyDict(<<>>)))

(***************************************************************************)
(* What the variables of the other state machines hold while they rest.    *)
(***************************************************************************)
NoClass ==
    [family |-> "none", VERSION |-> <<"None">>, entityNAME |-> <<"None">>,
     actionNAME |-> <<"None">>, apiAttrs |-> <<>>, entityAttrs |-> <<>>,
     modCustom |-> {}]
NoObj == [kind |-> "none", outcome |-> <<"return", <<"None">>>>, self |-> <<>>]
NoEnv ==
    [kind |-> "none", net |-> "none", status |-> 0, text |-> <<"junk", "">>,
     ended |-> "none", exit |-> 0, stdout |-> <<"junk", "">>, stderr |-> ""]
NoReq ==
    [api |-> "none", entity |-> "", action |-> "", given |-> <<"None">>,
     sent |-> <<>>, performed |-> <<"return", <<"None">>>>,
     outcome |-> <<"return", <<"None">>>>]
NoShown == [kind |-> "none", of |-> <<"None">>, text |-> <<"return", <<"None">>>>]

(***************************************************************************)
(* The state machine: a caller holding one params object performs api      *)
(* calls in any of the three styles on one api instance.                   *)
(***************************************************************************)
NoCall ==
    [style |-> "none", entity |-> "", action |-> "", passed |-> None, given |-> None,
     prepared |-> None, wire |-> <<"", "", None>>, response |-> None,
     decoded |-> Return(None), checked |-> Return(None), outcome |-> Return(None)]

CallRecord(style, entity, action, c) ==
    [style |-> style, entity |-> entity, action |-> action, passed |-> params,
     given |-> c.given, prepared |-> c.prepared, wire |-> c.wire,
     response |-> c.response, decoded |-> c.decoded, checked |-> c.checked,
     outcome |-> c.outcome]

\* The caller's object after the call: the dict that reached the api is the
\* caller's own object unless `params or dict()` replaced it by a fresh one.
CallerParamsAfter(c) == IF c.given = params THEN c.arg ELSE params

Init ==
    /\ version \in Versions
    /\ transport \in Transports
    /\ server \in Servers
    /\ params \in AllParams
    /\ last = NoCall
    /\ cls = NoClass
    /\ obj = NoObj
    /\ env = NoEnv
    /\ req = NoReq
    /\ shown = NoShown

\* api.E.A(params)
CallAction(entity, action) ==
    LET c == Action__call__(version, transport, server, entity, action, params)
    IN  /\ last' = CallRecord("action", entity, action, c)
        /\ params' = CallerParamsAfter(c)
        /\ UNCHANGED <<version, transport, server, cls, obj, env, req, shown>>

\* api.E(A, params)
CallEntity(entity, action) ==
    LET c == Entity__call__(version, transport, server, entity, action, params)
    IN  /\ last' = CallRecord("entity", entity, action, c)
        /\ params' = CallerParamsAfter(c)
        /\ UNCHANGED <<version, transport, server, cls, obj, env, req, shown>>

\* api(E, A, params)
CallApi(entity, action) ==
    LET c == Api__call__(version, transport, server, entity, action, params)
    IN  /\ last' = CallRecord("api", entity, action, c)
        /\ params' = CallerParamsAfter(c)
        /\ UNCHANGED <<version, transport, server, cls, obj, env, req, shown>>

Next ==
    \E entity \in Entities, action \in VERSION_ACTIONS :
        \/ CallAction(entity, action)
        \/ CallEntity(entity, action)
        \/ CallApi(entity, action)

Spec == Init /\ [][Next]_vars

(***************************************************************************)
(* Properties.                                                             *)
(***************************************************************************)
Called == last.style # "none"

\* A call that reached the parameter preparation with a non-empty dict.
FlatCall(actions) ==
    /\ Called
    /\ version = "v4"
    /\ last.action \in actions
    /\ IsDict(last.given)
    /\ Truthy(last.given)

\* The where-list written by hand: one [key, '=', value] per field of d.
ExplicitWhere(d) == PyList([i \in 1..Len(d[2]) |-> Triple(d[2][i][1], d[2][i][2])])

\* C1: the three entry styles api.E.A(P), api.E(A, P) and api(E, A, P) hand
\* the same wire request to the transport and end in the same outcome, also
\* when they are made one after another with the same params mapping.
C1_StylesEquivalent ==
    [][(/\ Called
        /\ last'.style # last.style
        /\ last'.entity = last.entity
        /\ last'.action = last.action)
       => (last'.wire = last.wire /\ last'.outcome = last.outcome)]_vars

\* C2: for v4, get or delete and non-empty params without `where`, the
\* prepared params have the single key `where`, holding exactly one
\* [field, '=', value] triple per supplied field, and they are the params
\* the explicit where-form is prepared to.
C2_FlatGetBecomesWhere ==
    (FlatCall({"get", "delete"}) /\ ~HasKey(last.given, "where")) =>
        LET out == last.prepared
            explicit == PyDict(<< <<"where", ExplicitWhere(last.given)>> >>)
        IN  /\ IsDict(out)
            /\ Len(out[2]) = 1
            /\ out[2][1][1] = "where"
            /\ IsList(out[2][1][2])
            /\ Len(out[2][1][2][2]) = Len(last.given[2])
            /\ \A i \in 1..Len(last.given[2]) :
                 Cardinality({j \in 1..Len(out[2][1][2][2]) :
                     out[2][1][2][2][j] = Triple(last.given[2][i][1], last.given[2][i][2])}) = 1
            /\ prepare_api_v4_parameters(version, last.action, explicit).ret = out

C2_Witness ==
    /\ FlatCall({"get"})
    /\ ~HasKey(last.given, "where")
    /\ Len(last.given[2]) = 2
    /\ HasKey(last.prepared, "where")

\* C3: for v4, create and non-empty params P without `values`, the prepared
\* params are exactly {values: P}.
C3_FlatCreateBecomesValues ==
    (FlatCall({"create"}) /\ ~HasKey(last.given, "values")) =>
        /\ IsDict(last.prepared)
        /\ Len(last.prepared[2]) = 1
        /\ last.prepared[2][1] = <<"values", last.given>>

C3_Witness ==
    /\ FlatCall({"create"})
    /\ ~HasKey(last.given, "values")
    /\ Len(last.given[2]) = 2
    /\ HasKey(last.prepared, "values")

\* C4: for v4, update and params with `id` and without `where`, the prepared
\* params are exactly {where: [['id', '=', idValue]], values: R}, R holding
\* every supplied field except `id`.
C4_FlatUpdateSplitsId ==
    (FlatCall({"update"}) /\ HasKey(last.given, "id") /\ ~HasKey(last.given, "where")) =>
        LET out == last.prepared
            P == last.given
        IN  /\ IsDict(out)
            /\ Len(out[2]) = 2
            /\ Keys(out) = {"where", "values"}
            /\ \E i \in 1..2 :
                 /\ out[2][i][1] = "where"
                 /\ \E j \in 1..Len(P[2]) :
                      /\ P[2][j][1] = "id"
                      /\ out[2][i][2] = PyList(<<Triple("id", P[2][j][2])>>)
            /\ \E i \in 1..2 :
                 /\ out[2][i][1] = "values"
                 /\ LET R == out[2][i][2]
                    IN  /\ IsDict(R)
                        /\ Len(R[2]) = Len(P[2]) - 1
                        /\ "id" \notin Keys(R)
                        /\ {R[2][k] : k \in 1..Len(R[2])} =
                             {P[2][k] : k \in {n \in 1..Len(P[2]) : P[2][n][1] # "id"}}

C4_Witness ==
    /\ FlatCall({"update"})
    /\ HasKey(last.given, "id")
    /\ ~HasKey(last.given, "where")
    /\ Len(last.given[2]) = 2
    /\ HasKey(last.prepared, "values")
    /\ Len(GetItem(last.prepared, "values")[2]) = 1

\* C5: for v4 and every action, params that already contain one of the
\* structured keys `where`, `values`, `select` or `join` are returned
\* unchanged by the preparation.
C5_StructuredPassesThrough ==
    (/\ Called
     /\ version = "v4"
     /\ IsDict(last.given)
     /\ \E k \in {"where", "values", "select", "join"} : HasKey(last.given, k))
    => last.prepared = last.given

\* C6: for v3 the preparation returns the params unchanged, whatever the
\* action and the keys, and leaves the caller's object as it was.
C6_V3PassesThrough ==
    (Called /\ version = "v3") =>
        (last.prepared = last.given /\ params = last.passed)

C6_Witness ==
    /\ Called
    /\ version = "v3"
    /\ last.action = "update"
    /\ IsDict(last.given)
    /\ HasKey(last.given, "id")
    /\ last.prepared = last.given

\* C7: for v4 the preparation returns the params unchanged whenever no
\* inference branch applies: empty or absent params, an action other than
\* get, delete, create and update, and update without `id` and `where`.
NoInferenceBranch ==
    \/ ~Truthy(last.given)
    \/ last.action \notin {"get", "delete", "create", "update"}
    \/ /\ last.action = "update"
       /\ IsDict(last.given)
       /\ ~HasKey(last.given, "id")
       /\ ~HasKey(last.given, "where")

C7_V4NoBranchPassesThrough ==
    (Called /\ version = "v4" /\ NoInferenceBranch) =>
        (last.prepared = last.given /\ params = last.passed)

C7_Witness ==
    /\ Called
    /\ version = "v4"
    /\ last.action = "update"
    /\ Truthy(last.given)
    /\ ~HasKey(last.given, "id")
    /\ ~HasKey(last.given, "where")
    /\ last.prepared = last.given

\* C8: parameter preparation is idempotent: preparing the prepared params
\* of a call again, for the same version and action, returns them as they
\* are; prepared params with `where` are not wrapped a second time.
C8_PrepareIdempotent ==
    Called => prepare_api_v4_parameters(version, last.action, last.prepared).ret = last.prepared

C8_Witness ==
    /\ FlatCall({"get"})
    /\ last.prepared # last.given
    /\ HasKey(last.prepared, "where")
    /\ prepare_api_v4_parameters(version, last.action, last.prepared).ret = last.prepared

C10_OtherShapesInvalidResponse ==
    (/\ Called
     /\ Returned(last.checked)
     /\ ~IsList(last.checked[2])
     /\ ~(IsDict(last.checked[2]) /\ HasKey(last.checked[2], "values")))
    => Raised(last.outcome, "InvalidResponse")

\* C11: every api call that returns normally returns a list of result
\* records, never a bare mapping.
C11_ReturnsList ==
    (Called /\ Returned(last.outcome)) => IsList(last.outcome[2])

\* C12: the api error check raises the api error for a decoded dict with a
\* truthy `is_error` and for a decoded dict that has an `error_code` key,
\* whatever its value; every other decoded value is passed on unchanged.
ErrorSignal(data) ==
    /\ IsDict(data)
    /\ \/ \E i \in 1..Len(data[2]) : data[2][i][1] = "is_error" /\ Truthy(data[2][i][2])
       \/ \E i \in 1..Len(data[2]) : data[2][i][1] = "error_code"

C12_ErrorClassifier ==
    (Called /\ Returned(last.decoded)) =>
        LET data == last.decoded[2]
        IN  IF ErrorSignal(data)
            THEN last.checked = Raise("InvalidApiCall", data) /\ last.outcome = last.checked
            ELSE last.checked = Return(data)

C12_Witness ==
    /\ Called
    /\ server = "error_code"
    /\ Returned(last.decoded)
    /\ ~Truthy(GetItem(last.decoded[2], "error_code"))
    /\ Raised(last.outcome, "InvalidApiCall")

NoAttrs == <<>>

NewObject(kind, NAME, classAttrs) == <<kind, NAME, classAttrs, NoAttrs>>

HasAttr(o, n) == n \in DOMAIN o[4] \/ n \in DOMAIN o[3]

GetAttr(o, n) == IF n \in DOMAIN o[4] THEN o[4][n] ELSE o[3][n]

SetAttr(o, n, v) ==
    <<o[1], o[2], o[3],
      [m \in (DOMAIN o[4]) \cup {n} |-> IF m = n THEN v ELSE o[4][m]]>>

\* What a constructor or a registration step leaves behind: how it ended and
\* the object as it stands at that point.
Done(o) == [outcome |-> Return(None), self |-> o]
Failed(exc, o) == [outcome |-> Raise(exc, None), self |-> o]

\* The version modules: the entity and action names each of them lists, in
\* the order of the list.
version_ENTITIES(v) == <<"Contact", "Email">>

v3_ACTIONS == <<"get", "create", "delete", "getsingle">>

v4_ACTIONS ==
    <<"checkAccess", "getActions", "getFields", "get", "create", "update",
      "save", "delete", "replace">>

version_ACTIONS(v) == IF v = "v3" THEN v3_ACTIONS ELSE v4_ACTIONS

\* ---- civicrmapi/base.py ----

\* BaseAction.__init__: NotImplemented is not callable, so the raise
\* statement ends in a TypeError before any attribute is set.
BaseAction__init__(NAME, entity) ==
    IF ~Truthy(NAME)
    THEN Failed("TypeError", NewObject("Action", NAME, NoAttrs))
    ELSE Done(<<"Action", NAME, NoAttrs,
                [m \in {"_entity"} |-> entity]>>)

\* BaseEntity.add_action for an action given as a string; self is the entity.
add_action(self, action) ==
    LET act == BaseAction__init__(PyStr(action), self[2])
    IN  IF Returned(act.outcome)
        THEN Done(SetAttr(self, action, act.self))
        ELSE [outcome |-> act.outcome, self |-> self]

RECURSIVE add_default_actions_loop(_, _, _)
add_default_actions_loop(self, actions, i) ==
    IF i > Len(actions) THEN Done(self)
    ELSE LET r == add_action(self, actions[i])
         IN  IF Returned(r.outcome)
             THEN add_default_actions_loop(r.self, actions, i + 1)
             ELSE r

\* add_default_actions leaving out the first action of the list.
add_default_actions_skip_first(self, api) ==
    add_default_actions_loop(self, version_ACTIONS(api[2][2]), 2)

\* BaseEntity.add_default_actions; api[2] is the VERSION of the api.
add_default_actions(self, api) ==
    add_default_actions_loop(self, version_ACTIONS(api[2][2]), 1)

\* BaseEntity.__init__ without the test of NAME.
BaseEntity__init__unchecked(self, api) ==
    add_default_actions(SetAttr(self, "_api", api[2]), api)

\* BaseEntity.__init__; self is the fresh instance of the Entity class.
BaseEntity__init__(self, api) ==
    IF ~Truthy(self[2])
    THEN Failed("TypeError", self)
    ELSE add_default_actions(SetAttr(self, "_api", api[2]), api)

\* BaseApi.add_entity for an entity given as a string; self is the api.
add_entity(self, entity) ==
    LET ent == BaseEntity__init__(NewObject("Entity", PyStr(entity), NoAttrs),
                                  self)
    IN  IF Returned(ent.outcome)
        THEN Done(SetAttr(self, entity, ent.self))
        ELSE [outcome |-> ent.outcome, self |-> self]

RECURSIVE add_default_entities_loop(_, _, _)
add_default_entities_loop(self, entities, i) ==
    IF i > Len(entities) THEN Done(self)
    ELSE LET r == add_entity(self, entities[i])
         IN  IF Returned(r.outcome)
             THEN add_default_entities_loop(r.self, entities, i + 1)
             ELSE r

add_default_entities(self) ==
    add_default_entities_loop(self, version_ENTITIES(self[2][2]), 1)

\* BaseApi.__init__; self is the fresh instance of the Api class.
BaseApi__init__(self) ==
    IF ~Truthy(self[2])
    THEN Failed("TypeError", self)
    ELSE add_default_entities(self)

\* ---- civicrmapi/api.py ----

\* BaseAction of api.py: class attributes ENTITY and ACTION, no test.
api_BaseAction(ENTITY, action) ==
    <<"Action", PyStr(action), [m \in {"ENTITY"} |-> ENTITY],
      [m \in {"_api"} |-> "api"]>>

RECURSIVE api_add_actions(_, _, _)
api_add_actions(self, actions, i) ==
    IF i > Len(actions) THEN Done(self)
    ELSE IF HasAttr(self, actions[i])
         THEN api_add_actions(self, actions, i + 1)
         ELSE api_add_actions(
                  SetAttr(self, actions[i], api_BaseAction(self[2], actions[i])),
                  actions, i + 1)

api_BaseEntity__init__(self, api) ==
    LET o == SetAttr(self, "_api", api[2])
    IN  IF Truthy(api[2])
        THEN api_add_actions(o, version_ACTIONS(api[2][2]), 1)
        ELSE Done(o)

\* BaseApi._add_entities: custom is the set of entity names for which the
\* version module holds a class, entityAttrs the attributes of such a class.
RECURSIVE api_add_entities(_, _, _, _, _)
api_add_entities(self, entities, custom, entityAttrs, i) ==
    IF i > Len(entities) THEN Done(self)
    ELSE LET e == entities[i]
             fresh == IF e \in custom
                      THEN NewObject("Entity", PyStr(e), entityAttrs)
                      ELSE NewObject("Entity", PyStr(e), NoAttrs)
             ent == api_BaseEntity__init__(fresh, self)
         IN  api_add_entities(SetAttr(self, e, ent.self),
                              entities, custom, entityAttrs, i + 1)

api_BaseApi__init__(self, custom, entityAttrs) ==
    IF Truthy(self[2])
    THEN api_add_entities(self, version_ENTITIES(self[2][2]), custom,
                          entityAttrs, 1)
    ELSE Done(self)

(***************************************************************************)
(* The state machine of construction: the caller has defined an Api        *)
(* class, an Entity class and an Action class and constructs instances.    *)
(***************************************************************************)
CustomValue == <<"custom", "fakemethod">>

AttrsOver(S) == {[n \in D |-> CustomValue] : D \in SUBSET S}

ClassDefs ==
    [family      : {"base", "api"},
     VERSION     : {None, PyStr("v3"), PyStr("v4")},
     entityNAME  : {None, PyStr(""), PyStr("Contact")},
     actionNAME  : {None, PyStr(""), PyStr("get")},
     apiAttrs    : AttrsOver({"Contact", "Email"}),
     entityAttrs : AttrsOver({"get", "getFields"}),
     modCustom   : SUBSET {"Contact"}]

Constructed(kind, r) == [kind |-> kind, outcome |-> r.outcome, self |-> r.self]

InitReg ==
    /\ version = "v4"
    /\ transport = "rest"
    /\ server = "list"
    /\ params = None
    /\ last = NoCall
    /\ cls \in ClassDefs
    /\ obj = NoObj
    /\ env = NoEnv
    /\ req = NoReq
    /\ shown = NoShown

\* The api instance an Entity or Action is constructed with.
TheApi == NewObject("Api", cls.VERSION, cls.apiAttrs)

\* MyAction(entity), for the Action class of base.py.
ConstructAction ==
    /\ cls.family = "base"
    /\ obj' = Constructed("action",
                          BaseAction__init__(cls.actionNAME, cls.entityNAME))
    /\ UNCHANGED <<version, transport, server, params, last, cls, env, req, shown>>

\* MyEntity(api); under base.py an api exists only with a VERSION.
ConstructEntity ==
    /\ cls.family = "base" => Truthy(cls.VERSION)
    /\ LET fresh == NewObject("Entity", cls.entityNAME, cls.entityAttrs)
       IN  obj' = Constructed("entity",
                     IF cls.family = "base"
                     THEN BaseEntity__init__(fresh, TheApi)
                     ELSE api_BaseEntity__init__(fresh, TheApi))
    /\ UNCHANGED <<version, transport, server, params, last, cls, env, req, shown>>

\* MyApi()
ConstructApi ==
    /\ obj' = Constructed("api",
                 IF cls.family = "base"
                 THEN BaseApi__init__(TheApi)
                 ELSE api_BaseApi__init__(TheApi, cls.modCustom,
                                          cls.entityAttrs))
    /\ UNCHANGED <<version, transport, server, params, last, cls, env, req, shown>>

NextReg == ConstructAction \/ ConstructEntity \/ ConstructApi

SpecReg == InitReg /\ [][NextReg]_vars

(***************************************************************************)
(* Properties of construction.                                             *)
(***************************************************************************)
Built(kind) == obj.kind = kind

SeqToSet(q) == {q[i] : i \in 1..Len(q)}

\* C14: default-action registration on an Entity never overwrites a
\* pre-existing attribute: for every default action name of the bound
\* version which the Entity class already exposes, the attribute has the same
\* value after registration as before.
C14_ActionsKeepExisting ==
    (Built("entity") /\ Returned(obj.outcome) /\ Truthy(cls.VERSION)) =>
        \A a \in SeqToSet(version_ACTIONS(cls.VERSION[2])) :
            a \in DOMAIN cls.entityAttrs =>
                GetAttr(obj.self, a) = cls.entityAttrs[a]

\* C15: default-entity registration at Api construction keeps a custom
\* entity: for every entity name of the bound version which the Api subclass
\* already defines, that attribute is still bound under the name after
\* construction, and a default Entity is bound only under the other names.
C15_EntitiesKeepCustom ==
    (Built("api") /\ Returned(obj.outcome) /\ Truthy(cls.VERSION)) =>
        \A e \in SeqToSet(version_ENTITIES(cls.VERSION[2])) :
            IF e \in DOMAIN cls.apiAttrs
            THEN GetAttr(obj.self, e) = cls.apiAttrs[e]
            ELSE GetAttr(obj.self, e)[1] = "Entity"

NameMissing ==
    \/ Built("action") /\ ~Truthy(cls.actionNAME)
    \/ Built("entity") /\ ~Truthy(cls.entityNAME)
    \/ Built("api") /\ ~Truthy(cls.VERSION)

HTTP_OK == 200

Url == <<"dummy.de", "">>
ApiKey == "FAKE_API_KEY"
SiteKey == "FAKE_SITE_KEY"
Cv == <<"cv">>
Absent == <<"absent">>
EmptyText == <<"junk", "">>

\* str.rstrip('/'), str.lstrip('/'), str.strip('/'), a + b
RECURSIVE rstrip(_)
rstrip(u) ==
    IF Len(u) > 1 /\ u[Len(u)] = "" THEN rstrip(SubSeq(u, 1, Len(u) - 1)) ELSE u

RECURSIVE lstrip(_)
lstrip(u) == IF Len(u) > 1 /\ u[1] = "" THEN lstrip(Tail(u)) ELSE u

strip(u) == lstrip(rstrip(u))

StrConcat(a, b) ==
    SubSeq(a, 1, Len(a) - 1) \o <<a[Len(a)] \o b[1]>> \o Tail(b)

\* d[k] = v
SetItem(d, k, v) ==
    IF HasKey(d, k)
    THEN PyDict([i \in 1..Len(d[2]) |->
                    IF d[2][i][1] = k THEN <<k, v>> ELSE d[2][i]])
    ELSE PyDict(Append(d[2], <<k, v>>))

\* ---- what the network and the cv process do ----
ReplyList == JsonText(PyList(<<PyDict(<< <<"id", PyInt(1)>> >>)>>))
ReplyError ==
    JsonText(PyDict(<< <<"is_error", PyInt(1)>>, <<"error_message", PyStr("x")>> >>))
ReplyCount == JsonText(PyDict(<< <<"count", PyInt(0)>> >>))
ReplyNoError ==
    JsonText(PyDict(<< <<"is_error", PyInt(0)>>,
                       <<"values", PyList(<<PyDict(<< <<"id", PyInt(1)>> >>)>>)>> >>))

UsageError == "Usage: cv api4 [--in IN] [--out OUT] [<Entity.action>]"
NotFound == "sh: 1: dummy-cv: not found"
Warning == "PHP Warning"

HttpEnv(net, status, text) ==
    [kind |-> "http", net |-> net, status |-> status, text |-> text,
     ended |-> "none", exit |-> 0, stdout |-> EmptyText, stderr |-> ""]

ProcEnv(ended, exit, stdout, stderr) ==
    [kind |-> "proc", net |-> "none", status |-> 0, text |-> EmptyText,
     ended |-> ended, exit |-> exit, stdout |-> stdout, stderr |-> stderr]

HttpEnvs ==
    {HttpEnv("refused", 0, EmptyText)} \cup
    {HttpEnv("up", st, t) : st \in {HTTP_OK, 500},
                            t \in {ReplyList, ReplyError, JunkText}}

ProcEnvs ==
    {ProcEnv("failure", 0, EmptyText, ""),
     ProcEnv("exit", 127, EmptyText, NotFound)} \cup
    {ProcEnv("exit", x, out, err) :
        x \in {0, 1},
        out \in {EmptyText, JunkText, ReplyList, ReplyError, ReplyCount,
                 ReplyNoError},
        err \in {"", UsageError, Warning}}

\* requests.post(url, params=..., headers=...)
Post(url, fields, headers) == <<"post", url, fields, headers>>

requests_post(e) ==
    IF e.net = "refused"
    THEN Raise("RequestException", None)
    ELSE Return(<<"Response", e.text, e.status>>)

\* subprocess.run(command, shell=True, capture_output=True, check=True)
subprocess_run(e) ==
    IF e.exit # 0
    THEN Raise("CalledProcessError", <<"CalledProcessError", e.stdout, e.exit, e.stderr>>)
    ELSE Return(<<"CompletedProcess", e.stdout, e.exit, e.stderr>>)

\* invoke.run(command, hide=True)
invoke_run(e) ==
    IF e.ended = "failure" THEN Raise("Failure", None)
    ELSE IF e.exit # 0
    THEN Raise("UnexpectedExit", <<"Result", e.stdout, e.exit, e.stderr>>)
    ELSE Return(<<"Result", e.stdout, e.exit, e.stderr>>)

\* str.lower() of the texts of the model.
Lower(t) ==
    CASE t = UsageError -> "usage: cv api4 [--in in] [--out out] [<entity.action>]"
      [] t = Warning -> "php warning"
      [] OTHER -> t

\* The lowered texts of the model that have 'api4 [--in in] [--out out]' as a
\* substring.
TextsWithUsage == {"usage: cv api4 [--in in] [--out out] [<entity.action>]"}

\* The tail of BaseApi.__call__ after the transport has answered.
Api__call__tail(response) ==
    IF response[1] \in {"Response", "CompletedProcess"}
    THEN LET data1 == get_data_from_response(response)
             data2 == IF Returned(data1) THEN check_api_response(data1[2]) ELSE data1
         IN  IF Returned(data2) THEN normalize_result_values(data2[2]) ELSE data2
    ELSE Raise("AttributeError", None)

\* ---- civicrmapi/rest.py ----

\* BaseRestApi._process_json_result(reply.text)
process_json_result(reply) == Api__call__tail(reply)

\* BaseRestApi.__call__(params, url_path); url_path <<>> stands for None.
BaseRestApi__call__(e, url, headers, fields, url_path) ==
    LET full == IF url_path # <<>> THEN rstrip(url) \o lstrip(url_path) ELSE url
        sent == <<Post(full, fields, headers)>>
        reply == requests_post(e)
    IN  IF ~Returned(reply)
        THEN [sent |-> sent, outcome |-> Raise("RestConnectionError", None)]
        ELSE IF reply[2][3] # HTTP_OK
        THEN [sent |-> sent, outcome |-> Raise("RestApiError", reply[2])]
        ELSE [sent |-> sent, outcome |-> process_json_result(reply[2])]

\* RestApiV3.__init__ and __call__: base_params is built and params is posted.
RestApiV3__call__(e, entity, action, p) ==
    LET url == StrConcat(rstrip(Url), <<"", "civicrm", "ajax", "rest">>)
        base_params ==
            PyDict(<< <<"api_key", PyStr(ApiKey)>>, <<"key", PyStr(SiteKey)>>,
                      <<"entity", PyStr(entity)>>, <<"action", PyStr(action)>>,
                      <<"json", JsonText(p)>> >>)
    IN  BaseRestApi__call__(e, url, None, p, <<>>)

\* RestApiV4.__init__ and __call__
RestApiV4__call__(e, entity, action, p) ==
    LET url == StrConcat(rstrip(Url), <<"", "civicrm", "ajax", "api4", "">>)
        headers ==
            PyDict(<< <<"Content-Type", PyStr("application/x-www-form-urlencoded")>>,
                      <<"X-Civi-Auth", PyStr("Bearer " \o ApiKey)>> >>)
        fields == PyDict(<< <<"params", JsonText(p)>> >>)
        url_path == <<entity, action>>
    IN  BaseRestApi__call__(e, url, headers, fields, url_path)

\* ---- civicrmapi/api.py ----

\* result.get('is_error', False) or result.get('error_message', None)
result_has_error(result) ==
    Truthy(PyOr(DictGet(result, "is_error", PyBool(FALSE)),
                DictGet(result, "error_message", None)))

\* BaseRestApi.__call__(url, params, headers)
api_BaseRestApi__call__(e, url, fields, headers) ==
    LET sent == <<Post(url, fields, headers)>>
        reply == requests_post(e)
        result == json_loads(reply[2][2])
    IN  IF ~Returned(reply)
        THEN [sent |-> sent, outcome |-> Raise("RestConnectionError", None)]
        ELSE IF reply[2][3] # HTTP_OK
        THEN [sent |-> sent, outcome |-> Raise("RestApiError", reply[2])]
        ELSE IF ~Returned(result)
        THEN [sent |-> sent, outcome |-> Raise("RestApiError", reply[2])]
        ELSE IF ~IsDict(result[2])
        THEN [sent |-> sent, outcome |-> Raise("AttributeError", None)]
        ELSE IF result_has_error(result[2])
        THEN [sent |-> sent, outcome |-> Raise("RestApiError", reply[2])]
        ELSE [sent |-> sent, outcome |-> result]

\* RestApiV3.__call__ of api.py
api_RestApiV3__call__(e, entity, action, p) ==
    LET url == StrConcat(strip(Url), <<"", "civicrm", "ajax", "rest">>)
        base_params ==
            PyDict(<< <<"api_key", PyStr(ApiKey)>>, <<"key", PyStr(SiteKey)>>,
                      <<"entity", PyStr(entity)>>, <<"action", PyStr(action)>>,
                      <<"json", JsonText(p)>> >>)
    IN  api_BaseRestApi__call__(e, url, p, None)

\* ---- civicrmapi/civicrmapi.py ----

\* CivicrmApi._call(url, params, headers): requests.post is not guarded.
civicrm_call(e, url, fields, headers) ==
    LET sent == <<Post(url, fields, headers)>>
        reply == requests_post(e)
        result == json_loads(reply[2][2])
    IN  IF ~Returned(reply)
        THEN [sent |-> sent, outcome |-> reply]
        ELSE IF reply[2][3] # HTTP_OK
        THEN [sent |-> sent, outcome |-> Raise("ApiError", reply[2])]
        ELSE IF ~Returned(result)
        THEN [sent |-> sent, outcome |-> Raise("ApiError", reply[2])]
        ELSE IF ~IsDict(result[2])
        THEN [sent |-> sent, outcome |-> Raise("AttributeError", None)]
        ELSE IF result_has_error(result[2])
        THEN [sent |-> sent, outcome |-> Raise("ApiError", reply[2])]
        ELSE [sent |-> sent, outcome |-> result]

\* CivicrmApi.callv3; base_url is 'https://' + url.
callv3(e, entity, action, p) ==
    LET base_url == StrConcat(<<"https:", "", "">>, Url)
        url == StrConcat(strip(base_url), <<"", "civicrm", "ajax", "rest">>)
        base_params ==
            PyDict(<< <<"api_key", PyStr(ApiKey)>>, <<"key", PyStr(SiteKey)>>,
                      <<"entity", PyStr(entity)>>, <<"action", PyStr(action)>>,
                      <<"json", JsonText(p)>> >>)
    IN  civicrm_call(e, url, base_params, None)

\* ---- civicrmapi/cv.py ----

\* f'{entity}.{action}'
EntityAction(entity, action) == entity \o "." \o action

\* CvApiV3._get_command and ConsoleApiV3._get_command (the same code); the
\* params dict it was given is changed in place.
v3_get_command(entity, action, p) ==
    LET q == SetItem(p, "sequential", PyInt(1))
    IN  [params |-> q,
         command |-> <<"run", JsonText(q),
                       Cv \o <<"api3", EntityAction(entity, action), "--in=json">>,
                       Absent>>]

\* CvApiV4._get_command and ConsoleApiV4._get_command (the same code)
v4_get_command(entity, action, p) ==
    [params |-> p,
     command |-> <<"run", Absent, Cv \o <<"api4", EntityAction(entity, action)>>,
                   IF Truthy(p) THEN JsonText(p) ELSE Absent>>]

get_command(v, entity, action, p) ==
    IF v = "v3" THEN v3_get_command(entity, action, p)
    ELSE v4_get_command(entity, action, p)

\* data['is_error'] after json.loads(exc.stdout)
is_error_item(data) ==
    IF IsDict(data)
    THEN IF HasKey(data, "is_error") THEN Return(GetItem(data, "is_error"))
         ELSE Raise("KeyError", None)
    ELSE Raise("TypeError", None)

\* BaseCvApi._perform_api_call
cv_perform_api_call(e, v, entity, action, p) ==
    LET cmd == get_command(v, entity, action, p)
        run == subprocess_run(e)
        outcome ==
            IF Raised(run, "CalledProcessError")
            THEN IF Lower(e.stderr) \in TextsWithUsage
                 THEN Raise("ApiError", PyStr(e.stderr))
                 ELSE LET data == json_loads(e.stdout)
                      IN  IF ~Returned(data) THEN run
                          ELSE LET item == is_error_item(data[2])
                               IN  IF Raised(item, "KeyError") THEN run
                                   ELSE IF ~Returned(item) THEN item
                                   ELSE data
            ELSE LET data == json_loads(e.stdout)
                 IN  IF ~Returned(data) THEN Raise("InvalidResponse", run[2])
                     ELSE data
    IN  [sent |-> <<cmd.command>>, params |-> cmd.params, outcome |-> outcome]

\* ---- civicrmapi/console.py ----

\* BaseConsoleApi._run
console_run(e) ==
    LET reply == invoke_run(e)
    IN  IF Raised(reply, "UnexpectedExit") THEN Raise("ApiError", reply[3])
        ELSE IF Raised(reply, "Failure") THEN Raise("InvokeError", None)
        ELSE IF reply[2][4] # "" /\ reply[2][2] = EmptyText
        THEN Raise("ApiError", reply[2])
        ELSE reply

\* BaseConsoleApi._perform_api_call: the stdout of the reply is handed back.
console_perform_api_call(e, v, entity, action, p) ==
    LET cmd == get_command(v, entity, action, p)
        reply == console_run(e)
    IN  [sent |-> <<cmd.command>>, params |-> cmd.params,
         outcome |-> IF Returned(reply) THEN Return(reply[2][2]) ELSE reply]

\* BaseApi.__call__ of a command line api; an exception of the transport
\* passes through it.
Console__call__(tr, e, v, entity, action, p) ==
    LET prep == prepare_api_v4_parameters(v, action, p)
        wireParams == PyOr(prep.ret, PyDict(<<>>))
        t == IF tr = "cv" THEN cv_perform_api_call(e, v, entity, action, wireParams)
             ELSE console_perform_api_call(e, v, entity, action, wireParams)
    IN  [sent |-> t.sent,
         performed |-> t.outcome,
         outcome |-> IF Returned(t.outcome) THEN Api__call__tail(t.outcome[2])
                     ELSE t.outcome,
         \* the caller's dict is the one handed on unless it is None or empty
         \* or was replaced by the reshaped params
         arg |-> IF Truthy(p) /\ prep.ret = p THEN t.params ELSE prep.arg]

(***************************************************************************)
(* The state machine of the transports: a caller holding one params        *)
(* object calls the apis in one environment.                               *)
(***************************************************************************)
Request(api, entity, action, r) ==
    [api |-> api, entity |-> entity, action |-> action, given |-> params,
     sent |-> r.sent, performed |-> r.outcome, outcome |-> r.outcome]

\* The params the caller holds: none, empty, one field, a flat update, and
\* a sequential of the caller's own.
TransportParams ==
    {None} \cup {DictOfKeys(k) : k \in KeySeqs(1)}
           \cup {DictOfKeys(<<"id", "contact_type">>)}
           \cup {PyDict(<< <<"sequential", PyInt(0)>> >>)}

InitT ==
    /\ version = "v4"
    /\ transport = "rest"
    /\ server = "list"
    /\ params \in TransportParams
    /\ last = NoCall
    /\ cls = NoClass
    /\ obj = NoObj
    /\ env \in HttpEnvs \cup ProcEnvs
    /\ req = NoReq
    /\ shown = NoShown

\* RestApiV3(url, api_key, site_key)(entity, action, params), rest.py
CallRestV3(entity, action) ==
    /\ env.kind = "http"
    /\ req' = Request("rest.RestApiV3", entity, action,
                      RestApiV3__call__(env, entity, action, params))
    /\ UNCHANGED <<version, transport, server, params, last, cls, obj, env, shown>>

\* RestApiV4(url, api_key)(entity, action, params), rest.py
CallRestV4(entity, action) ==
    /\ env.kind = "http"
    /\ req' = Request("rest.RestApiV4", entity, action,
                      RestApiV4__call__(env, entity, action, params))
    /\ UNCHANGED <<version, transport, server, params, last, cls, obj, env, shown>>

\* RestApiV3(url, api_key, site_key)(entity, action, params), api.py
CallApiPyRestV3(entity, action) ==
    /\ env.kind = "http"
    /\ req' = Request("api.RestApiV3", entity, action,
                      api_RestApiV3__call__(env, entity, action, params))
    /\ UNCHANGED <<version, transport, server, params, last, cls, obj, env, shown>>

\* CivicrmApi(url, api_key, site_key).callv3(entity, action, params)
CallCallv3(entity, action) ==
    /\ env.kind = "http"
    /\ req' = Request("civicrmapi.callv3", entity, action,
                      callv3(env, entity, action, params))
    /\ UNCHANGED <<version, transport, server, params, last, cls, obj, env, shown>>

\* CvApiV3('cv') and CvApiV4('cv') called with (entity, action, params)
CallCv(v, entity, action) ==
    /\ env.kind = "proc"
    /\ env.ended = "exit"
    /\ LET c == Console__call__("cv", env, v, entity, action, params)
       IN  /\ req' = [api |-> "cv." \o v, entity |-> entity, action |-> action,
                      given |-> params, sent |-> c.sent,
                      performed |-> c.performed, outcome |-> c.outcome]
           /\ params' = c.arg
    /\ UNCHANGED <<version, transport, server, last, cls, obj, env, shown>>

\* ConsoleApiV3('cv') and ConsoleApiV4('cv') called with (entity, action, params)
CallConsole(v, entity, action) ==
    /\ env.kind = "proc"
    /\ LET c == Console__call__("console", env, v, entity, action, params)
       IN  /\ req' = [api |-> "console." \o v, entity |-> entity, action |-> action,
                      given |-> params, sent |-> c.sent,
                      performed |-> c.performed, outcome |-> c.outcome]
           /\ params' = c.arg
    /\ UNCHANGED <<version, transport, server, last, cls, obj, env, shown>>

NextT ==
    \E entity \in Entities, action \in VERSION_ACTIONS :
        \/ CallRestV3(entity, action)
        \/ CallRestV4(entity, action)
        \/ CallApiPyRestV3(entity, action)
        \/ CallCallv3(entity, action)
        \/ \E v \in Versions : CallCv(v, entity, action)
        \/ \E v \in Versions : CallConsole(v, entity, action)

SpecT == InitT /\ [][NextT]_vars

(***************************************************************************)
(* Properties of the transports.                                           *)
(***************************************************************************)
Requested == req.api # "none"

Unreachable ==
    \/ env.kind = "http" /\ env.net = "refused"
    \/ env.kind = "proc" /\ env.ended = "exit" /\ env.exit = 127

TransportErrors == {"RestConnectionError", "RequestException", "CalledProcessError"}

\* C18: when the transport is unreachable (the connection fails, or the cv
\* command cannot be run), the call invokes the transport exactly once and
\* ends in a transport error raised to the caller: not a normal result, not
\* InvalidResponse and not an API-level error.
C18_UnreachableIsTransportError ==
    (Requested /\ Unreachable) =>
        /\ Len(req.sent) = 1
        /\ req.outcome[1] = "raise"
        /\ req.outcome[2] \in TransportErrors

\* C19: every v3 REST call for (entity, action, params) posts the form
\* fields api_key, key, entity, action and json, json being the JSON encoding
\* of the params; the caller's params are not the posted fields.
C19_V3RestFields ==
    (Requested /\ req.api \in {"rest.RestApiV3", "api.RestApiV3", "civicrmapi.callv3"}) =>
        /\ Len(req.sent) = 1
        /\ req.sent[1][1] = "post"
        /\ req.sent[1][3] =
               PyDict(<< <<"api_key", PyStr(ApiKey)>>, <<"key", PyStr(SiteKey)>>,
                         <<"entity", PyStr(req.entity)>>,
                         <<"action", PyStr(req.action)>>,
                         <<"json", JsonText(req.given)>> >>)

\* C20: every v4 REST call for (entity, action, params) posts to the path
\* <base>/<entity>/<action> one form field, params, holding the JSON encoding
\* of the normalized params, with the header X-Civi-Auth: Bearer <api key>.
C20_V4RestRequest ==
    (Requested /\ req.api = "rest.RestApiV4") =>
        /\ Len(req.sent) = 1
        /\ req.sent[1][1] = "post"
        /\ req.sent[1][2] =
               <<"dummy.de", "civicrm", "ajax", "api4", req.entity, req.action>>
        /\ req.sent[1][3] =
               PyDict(<< <<"params",
                           JsonText(prepare_api_v4_parameters(
                                        "v4", req.action, req.given).ret)>> >>)
        /\ IsDict(req.sent[1][4])
        /\ HasKey(req.sent[1][4], "X-Civi-Auth")
        /\ GetItem(req.sent[1][4], "X-Civi-Auth") = PyStr("Bearer FAKE_API_KEY")

V3Console == {"cv.v3", "console.v3"}

\* C21: in the v3 console invocation sequential is defaulted to 1: the JSON
\* piped to cv has sequential = 1 whenever the caller's params have no
\* sequential, and a sequential the caller supplied is sent as supplied.
C21_SequentialDefaulted ==
    (Requested /\ req.api \in V3Console) =>
        LET given == PyOr(req.given, PyDict(<<>>))
        IN  /\ Len(req.sent) = 1
            /\ req.sent[1][2][1] = "json"
            /\ HasKey(req.sent[1][2][2], "sequential")
            /\ GetItem(req.sent[1][2][2], "sequential") =
                   DictGet(given, "sequential", PyInt(1))

ConsoleApis == {"cv.v3", "cv.v4", "console.v3", "console.v4"}

ExitedNonZero == env.kind = "proc" /\ env.ended = "exit" /\ env.exit # 0

\* The side channel of the process carries an API error: the api4 usage
\* pattern in stderr, or JSON stdout that is a mapping with is_error.
SideChannelApiError ==
    \/ Lower(env.stderr) \in TextsWithUsage
    \/ /\ env.stdout[1] = "json"
       /\ IsDict(env.stdout[2])
       /\ HasKey(env.stdout[2], "is_error")

ApiLevelErrors == {"ApiError", "AccessDenied", "InvalidApiCall"}

\* C22: when the console process exits non-zero and its output carries no
\* recognizable API error, the call fails with a transport error whatever
\* stdout holds (nothing, no JSON, a JSON list, a JSON mapping); a non-zero
\* exit never ends in a normally returned result.
C22_NonZeroExitIsTransportError ==
    (Requested /\ req.api \in ConsoleApis /\ ExitedNonZero) =>
        /\ ~Returned(req.outcome)
        /\ ~SideChannelApiError =>
               /\ req.outcome[1] = "raise"
               /\ req.outcome[2] \in TransportErrors

\* C23: when the console process exits non-zero and its side channel carries
\* an API error, the call ends in an API-level error and not in a transport
\* error.
C23_SideChannelIsApiError ==
    (Requested /\ req.api \in ConsoleApis /\ ExitedNonZero /\ SideChannelApiError) =>
        /\ req.outcome[1] = "raise"
        /\ req.outcome[2] \in ApiLevelErrors

V4Apis == {"rest.RestApiV4", "cv.v4", "console.v4"}

\* The params a v4 call put on the wire: the JSON of the params field of the
\* REST request, the JSON argument of the command (none for empty params).
WireSent(r) ==
    LET j == IF r.api = "rest.RestApiV4" THEN GetItem(r.sent[1][3], "params")
             ELSE r.sent[1][4]
    IN  IF j = Absent THEN PyDict(<<>>) ELSE PyOr(j[2], PyDict(<<>>))

\* The reply text of a call that the transport completed.
ReplyText ==
    IF env.kind = "http" THEN env.text ELSE env.stdout

Completed ==
    \/ env.kind = "http" /\ env.net = "up" /\ env.status = HTTP_OK
    \/ env.kind = "proc" /\ env.ended = "exit" /\ env.exit = 0 /\ env.stderr = ""

\* What classification and result normalization make of decoded data.
NormalizedResult(data) ==
    LET checked == check_api_response(data)
    IN  IF Returned(checked) THEN normalize_result_values(checked[2]) ELSE checked

\* C24: parameter and result normalization are applied on every call path:
\* for API v4 the REST api and the console apis put the same normalized
\* params on the wire for the same (entity, action, params), and for the
\* same decoded reply they end in the same normalized result.
C24_SameNormalizationOnAllPaths ==
    (Requested /\ req.api \in V4Apis) =>
        /\ WireSent(req) =
               PyOr(prepare_api_v4_parameters("v4", req.action, req.given).ret,
                    PyDict(<<>>))
        /\ (Completed /\ ReplyText[1] = "json") =>
               req.outcome = NormalizedResult(ReplyText[2])

(***************************************************************************)
(* The state machine of calls with any name: the caller also uses entity   *)
(* and action names that the version does not list.  api.E exists only     *)
(* for a listed entity, api.E.A only for a listed action.                  *)
(***************************************************************************)
AnyEntities == {"Contact", "Foobar"}
AnyActions == {"get", "update", "foobar"}

Registered(v, entity, action) ==
    /\ entity \in SeqToSet(version_ENTITIES(v))
    /\ action \in SeqToSet(version_ACTIONS(v))

NameParams ==
    {None, PyDict(<<>>), DictOfKeys(<<"contact_type">>),
     DictOfKeys(<<"id", "contact_type">>)}

InitNames ==
    /\ version \in Versions
    /\ transport \in Transports
    /\ server \in Servers
    /\ params \in NameParams
    /\ last = NoCall
    /\ cls = NoClass
    /\ obj = NoObj
    /\ env = NoEnv
    /\ req = NoReq
    /\ shown = NoShown

NextNames ==
    \E entity \in AnyEntities, action \in AnyActions :
        \/ Registered(version, entity, action) /\ CallAction(entity, action)
        \/ Registered(version, entity, "get") /\ CallEntity(entity, action)
        \/ CallApi(entity, action)

SpecNames == InitNames /\ [][NextNames]_vars

UnregisteredCall == Called /\ ~Registered(version, last.entity, last.action)

\* The decoded reply has the shape of a result: a list, or a mapping with
\* values.
ResultShaped(data) == IsList(data) \/ (IsDict(data) /\ HasKey(data, "values"))

\* A call with an unlisted name is prepared and handed to the transport as
\* any call is.
RelayedUnchecked ==
    /\ last.prepared = prepare_api_v4_parameters(version, last.action, last.given).ret
    /\ last.wire = <<last.entity, last.action, PyOr(last.prepared, PyDict(<<>>))>>
    /\ last.response = perform_api_call(transport, server, last.entity,
                                        last.action, last.wire[3])

LifeClasses ==
    {c \in ClassDefs : /\ c.family = "base"
                       /\ Truthy(c.VERSION)
                       /\ c.entityNAME = PyStr("Contact")
                       /\ c.actionNAME = PyStr("get")
                       /\ c.entityAttrs = NoAttrs
                       /\ c.modCustom = {}}

InitLife ==
    /\ cls \in LifeClasses
    /\ version = cls.VERSION[2]
    /\ transport \in Transports
    /\ server \in Servers
    /\ params \in NameParams
    /\ last = NoCall
    /\ obj = NoObj
    /\ env = NoEnv
    /\ req = NoReq
    /\ shown = NoShown

\* api.E is an Entity instance; api.E.A is one of its attributes.
EntityBound(entity) ==
    /\ HasAttr(obj.self, entity)
    /\ GetAttr(obj.self, entity)[1] = "Entity"

ActionBound(entity, action) ==
    /\ EntityBound(entity)
    /\ HasAttr(GetAttr(obj.self, entity), action)

NextLife ==
    \/ obj.kind = "none" /\ ConstructApi
    \/ /\ obj.kind = "api"
       /\ Returned(obj.outcome)
       /\ \E entity \in AnyEntities, action \in AnyActions :
              \/ ActionBound(entity, action) /\ CallAction(entity, action)
              \/ EntityBound(entity) /\ CallEntity(entity, action)
              \/ CallApi(entity, action)

SpecLife == InitLife /\ [][NextLife]_vars

\* The wire request of a call as it follows from the call's own arguments.
OwnWire(entity, action, p) ==
    <<entity, action,
      PyOr(prepare_api_v4_parameters(version, action, p).ret, PyDict(<<>>))>>

C27_CallerParamsUnchanged == Requested => params = req.given

\* A decoded mapping that has an error signal and values as well.
ErrorWithValues(data) == ErrorSignal(data) /\ HasKey(data, "values")

attribute(o, n) ==
    IF (o[1] = "Response" /\ n = "text") \/ (o[1] = "CompletedProcess" /\ n = "stdout")
    THEN Return(o[2])
    ELSE Raise("AttributeError", None)

\* InvalidResponse.__str__:
\*   return getattr(self.response, 'text', self.response.stdout)
\* The default is an argument of getattr and is evaluated before the call.
InvalidResponse__str__(response) ==
    LET default == attribute(response, "stdout")
        text == attribute(response, "text")
    IN  IF ~Returned(default) THEN default
        ELSE IF Returned(text) THEN text
        ELSE default

InitStr ==
    /\ version \in Versions
    /\ transport \in Transports
    /\ server \in Servers
    /\ params \in NameParams
    /\ last = NoCall
    /\ cls = NoClass
    /\ obj = NoObj
    /\ env = NoEnv
    /\ req = NoReq
    /\ shown = NoShown

\* str(exc) for the InvalidResponse the last call raised
ShowError ==
    /\ Called
    /\ Raised(last.outcome, "InvalidResponse")
    /\ shown' = [kind |-> "str", of |-> last.outcome[3],
                 text |-> InvalidResponse__str__(last.outcome[3])]
    /\ UNCHANGED <<version, transport, server, params, last, cls, obj, env, req>>

NextStr ==
    \/ \E entity \in Entities, action \in VERSION_ACTIONS : CallApi(entity, action)
    \/ ShowError

SpecStr == InitStr /\ [][NextStr]_vars

\* The payload an InvalidResponse stands for: the text of an HTTP response,
\* the stdout of a process result, a decoded value itself.
PayloadOf(response) ==
    IF response[1] \in {"Response", "CompletedProcess"} THEN response[2]
    ELSE response

\* C29: rendering an InvalidResponse as text always succeeds and yields the
\* payload it was raised with: the text of an HTTP response, the stdout of a
\* process result, and the decoded payload itself when the failure was
\* raised for a well-formed JSON value without the expected envelope.
C29_RenderingYieldsPayload ==
    shown.kind = "str" => shown.text = Return(PayloadOf(shown.of))

====
